---- MODULE Spec2Model ----
(***************************************************************************)
(* ONVIF camera platform (homeassistant/components/onvif/camera.py):       *)
(* platform setup and session initialization, profile-token resolution,    *)
(* stream-URI resolution, the PTZ command engine (async_perform_ptz) and   *)
(* the onvif_ptz service handler (async_handle_ptz).                       *)
(*                                                                         *)
(* The program runs on one asyncio event loop: code between two awaits is  *)
(* atomic.  Every action below is one such stretch: it starts when a task  *)
(* is started or resumed by the reply to the call it awaits, and ends at   *)
(* the next await that suspends (a network call, asyncio.sleep) or at the  *)
(* end of the task.  The replies of the camera (the onvif / zeep / aiohttp *)
(* libraries) are the environment: each reply is drawn from the outcomes   *)
(* the code's own handlers name (success, onvif.exceptions.ONVIFError      *)
(* with a reason, aiohttp ClientConnectorError, zeep Fault).               *)
(***************************************************************************)
EXTENDS Integers, Sequences, FiniteSets, TLC

(* ------------------------------ bounds -------------------------------- *)
\* longest profile list a camera returns from GetProfiles
MaxProfiles == 2
\* largest duration / preset number of a service call (TYPE_POSITIVE_INTEGER)
MaxDuration == 1
MaxPreset == 0
\* largest magnitude a service call gives for an axis
MaxAxis == 1
\* largest difference, in seconds, between the camera's clock and the system's
MaxSkew == 6

(* --------------------------- program constants ------------------------ *)
STEP == 20
\* seconds of clock difference above which async_initialize warns
SkewLimit == 5
\* Speeds and steps are floats in [0, 1] (TYPE_POSITIVE_EPSILON); they are
\* counted in thousandths, so that a product of a step and a speed is counted
\* in millionths.
DEFAULT_SPEED == 1000
DEFAULT_STEP == 5
Epsilons == {0, 500, 1000}

\* Python's None, for values that are otherwise strings
None == "None"
\* an optional number (duration, preset, profile token): <<>> is None
Absent == << >>
Some(x) == << x >>
Opt(S) == {Absent} \cup {Some(x) : x \in S}

\* entity ids of the configured ONVIF cameras, and one entity id that is
\* no ONVIF camera
Cameras == {"camera.a", "camera.b"}
OtherEntity == "light.x"
EntityIds == Cameras \cup {OtherEntity}

\* CONF_PROFILE of each camera's platform entry: the default and an explicit 1
ConfProfile(c) == IF c = "camera.a" THEN 0 ELSE 1

\* the onvif_ptz service calls
Tasks == {1, 2}

\* entity ids a service call may name: any set of cameras, or an entity
\* that is no ONVIF camera
IdSets == (SUBSET Cameras) \cup {{OtherEntity}}

\* credentials of the session (CONF_USERNAME, CONF_PASSWORD)
Credentials == "admin:888888@"
\* the URI a camera returns from GetStreamUri, as the sequence of its parts
CameraUri == << "rtsp://", "host/stream" >>

(* --------------------------- call outcomes ---------------------------- *)
\* reason strings of an ONVIFError.  The code tests two substrings of the
\* reason ("Bad Request", "preset token"); a reason may hold either, both
\* or none.
Reasons == {"Bad Request", "no such preset token", "Bad Request: preset token", "other"}

Out(k, r) == [kind |-> k, reason |-> r]
Ok == Out("ok", "")
ONVIFErrors == {Out("ONVIFError", r) : r \in Reasons}
\* replies during async_initialize, none of whose handlers reads the reason
NetOutcomes ==
    {Ok, Out("ONVIFError", "other"), Out("ClientConnectorError", ""), Out("Fault", "")}
\* replies to a PTZ operation of async_perform_ptz, whose except clause names
\* ONVIFError only: any other exception fares as ClientConnectorError does
PtzOutcomes == {Ok} \cup ONVIFErrors \cup {Out("ClientConnectorError", "")}
\* replies to GetProfiles in async_perform_ptz: async_obtain_profile_token
\* handles the ONVIFError without reading the reason
ProfileOutcomes == {Ok, Out("ONVIFError", "other"), Out("ClientConnectorError", "")}

(* ------------------------------ state --------------------------------- *)
VARIABLES
    workload,           \* the cameras configured and the calls made (fixed)
    service_registered, \* hass.services has onvif_ptz (async_register ran)
    onvif_data,         \* hass.data: whether it has the key ONVIF_DATA, and
                        \* the list hass.data[ONVIF_DATA][ENTITIES]
    setup_pc,           \* per camera: position of async_setup_platform
    ptz_service,        \* per session: self._ptz_service (None or "PTZ")
    input,              \* per session: self._input (Absent or a URI)
    profile_index,      \* per session: self._profile_index
    init_events,        \* per session: what happened in async_initialize (history)
    calls,              \* per session: the calls issued to the camera (history)
    bad_request_at,     \* per session: Len(calls) when a PTZ call failed
                        \* with "Bad Request" (history)
    resolved,           \* the run of async_obtain_profile_token made in the
                        \* last step, if any (history)
    clock,              \* the clocks async_initialize compared in the last
                        \* step, if any (history)
    task                \* per service call: the async_handle_ptz task

vars == << workload, service_registered, onvif_data, setup_pc, ptz_service, input,
           profile_index, init_events, calls, bad_request_at, resolved, clock,
           task >>

(* ---------------------- profile-token resolution ---------------------- *)
\* A camera's profile list of length n is << profile 1, ..., profile n >>
\* and the k-th profile's token is k.

\* Python's list indexing profiles[i]: valid for -n <= i < n
PyIndexOk(i, n) == (-n <= i) /\ (i < n)
\* the (1-based) position profiles[i] reads
PyIndexPos(i, n) == IF i >= 0 THEN i + 1 ELSE n + i + 1

\* self._profile_index after the range check of async_obtain_profile_token
ProfileIndexAfter(idx, n) == IF idx >= n THEN -1 ELSE idx

\* async_obtain_profile_token on the reply o of GetProfiles, n the length of
\* the list returned: the exception that leaves the method ("" when none),
\* self._profile_index afterwards, and the token returned (Absent is None)
ObtainProfileToken(idx, o, n) ==
    IF o.kind = "ok"
    THEN LET i == ProfileIndexAfter(idx, n)
         IN  IF PyIndexOk(i, n)
             THEN [exc |-> "", index |-> i, token |-> Some(PyIndexPos(i, n))]
             ELSE [exc |-> "IndexError", index |-> i, token |-> Absent]
    ELSE IF o.kind = "ONVIFError"
    THEN [exc |-> "", index |-> idx, token |-> Absent]
    ELSE [exc |-> o.kind, index |-> idx, token |-> Absent]

\* history of one run: the session, the reply, the length of the list
\* returned, the outcome
NotResolved == [cam |-> "", reply |-> "", n |-> 0, exc |-> "", token |-> Absent]
Resolution(c, o, n, r) ==
    [cam |-> c, reply |-> o.kind, n |-> n, exc |-> r.exc, token |-> r.token]

(* ------------------------- stream-URI resolution ---------------------- *)
\* uri.replace('rtsp://', 'rtsp://user:password@', 1) on a URI given as the
\* sequence of its parts: the credentials follow the first 'rtsp://' part
RECURSIVE InsertCredentials(_)
InsertCredentials(uri) ==
    IF uri = << >> THEN << >>
    ELSE IF Head(uri) = "rtsp://" THEN << "rtsp://", Credentials >> \o Tail(uri)
    ELSE << Head(uri) >> \o InsertCredentials(Tail(uri))

\* self._input after async_obtain_input_uri got the reply o to GetStreamUri
StreamSource(old, o, uri) == IF o.kind = "ok" THEN InsertCredentials(uri) ELSE old

(* ------------------------- session configuration --------------------- *)
\* CONF_PTZ_SPEED and CONF_PTZ_STEP after the platform schema: one float, or
\* a mapping with all three axes
Float(x) == [float |-> Some(x), axes |-> Absent]
PerAxis(p, t, z) == [float |-> Absent, axes |-> Some([pan |-> p, tilt |-> t, zoom |-> z])]

\* the defaults for camera.a, a mapping for camera.b
ConfPtzSpeed(c) == IF c = "camera.a" THEN Float(DEFAULT_SPEED) ELSE PerAxis(500, DEFAULT_SPEED, 250)
ConfPtzStep(c) == IF c = "camera.a" THEN Float(DEFAULT_STEP) ELSE PerAxis(10, DEFAULT_STEP, 1000)

\* __init__: a float becomes the mapping of the three axes to it
AxisMapping(conf) ==
    IF conf.float # Absent
    THEN [pan |-> conf.float[1], tilt |-> conf.float[1], zoom |-> conf.float[1]]
    ELSE conf.axes[1]

\* self._ptz_speed and self._ptz_step
PtzSpeed(c) == AxisMapping(ConfPtzSpeed(c))
PtzStep(c) == AxisMapping(ConfPtzStep(c))

(* ---------------------------- PTZ commands --------------------------- *)
\* the value service.data holds for an axis: none (the key is absent), a
\* direction token, or a number
AxisNone == [tok |-> None, num |-> 0]
Token(t) == [tok |-> t, num |-> 0]
Number(k) == [tok |-> "", num |-> k]
Numbers == {Number(k) : k \in 0 .. MaxAxis}
\* SERVICE_PTZ_SCHEMA
PanValues == {AxisNone, Token("LEFT"), Token("RIGHT"), Token("NONE")} \cup Numbers
TiltValues == {AxisNone, Token("UP"), Token("DOWN"), Token("NONE")} \cup Numbers
ZoomValues == {AxisNone, Token("ZOOM_OUT"), Token("ZOOM_IN"), Token("NONE")} \cup Numbers

\* `not pan`
Falsy(v) == v = AxisNone \/ v = Number(0)

\* NormalizeAxis with the two directions exchanged
NormalizeAxis_Swapped(v, neg, pos) ==
    IF v = Token(neg) THEN STEP
    ELSE IF v = Token(pos) THEN 0 - STEP
    ELSE IF v = Token("NONE") \/ Falsy(v) THEN 0
    ELSE v.num

\* lines 122-124 for one axis, neg and pos its two direction tokens
NormalizeAxis(v, neg, pos) ==
    IF v = Token(neg) THEN 0 - STEP
    ELSE IF v = Token(pos) THEN STEP
    ELSE IF v = Token("NONE") \/ Falsy(v) THEN 0
    ELSE v.num

\* pan, tilt and zoom after lines 122-124
Normalize(cmd) ==
    [pan |-> NormalizeAxis(cmd.pan, "LEFT", "RIGHT"),
     tilt |-> NormalizeAxis(cmd.tilt, "DOWN", "UP"),
     zoom |-> NormalizeAxis(cmd.zoom, "ZOOM_OUT", "ZOOM_IN")]
NoAxes == [pan |-> 0, tilt |-> 0, zoom |-> 0]

\* service.data of an onvif_ptz call
Command(preset, duration, pan, tilt, zoom, sp, st, sz) ==
    [preset |-> preset, duration |-> duration, pan |-> pan, tilt |-> tilt, zoom |-> zoom,
     speed_pan |-> sp, speed_tilt |-> st, speed_zoom |-> sz]
\* the calls that give a preset and a duration at most: any duration with
\* no preset; no duration or the longest with a preset
Commands ==
    {Command(Absent, t, AxisNone, AxisNone, AxisNone, Absent, Absent, Absent) :
        t \in Opt(0 .. MaxDuration)}
    \cup {Command(Some(p), t, AxisNone, AxisNone, AxisNone, Absent, Absent, Absent) :
             p \in 0 .. MaxPreset, t \in {Absent, Some(MaxDuration)}}
\* the calls that move: any value for every axis with no speed given, and
\* any speed for every axis with a direction for every axis
AxisCommands ==
    {Command(Absent, t, p, q, z, Absent, Absent, Absent) :
        t \in Opt(0 .. MaxDuration), p \in PanValues, q \in TiltValues, z \in ZoomValues}
SpeedCommands ==
    {Command(Absent, t, Token("LEFT"), Token("UP"), Number(MaxAxis), sp, st, sz) :
        t \in Opt(0 .. MaxDuration), sp \in Opt(Epsilons), st \in Opt(Epsilons),
        sz \in Opt(Epsilons)}
PresetCommands ==
    {Command(Some(p), t, Token("RIGHT"), AxisNone, AxisNone, Some(500), Absent, Absent) :
        p \in 0 .. MaxPreset, t \in Opt(0 .. MaxDuration)}

\* what is run: the cameras configuration.yaml holds, the service calls made,
\* the entity ids they may name and the commands they may carry.  Two cameras
\* and one call naming any ids (fan-out), or one camera and two calls naming
\* none (calls overlapping on one session).
Workloads ==
    { [cams |-> Cameras, tasks |-> {1}, ids |-> IdSets, cmds |-> "plain"],
      [cams |-> {"camera.a"}, tasks |-> Tasks, ids |-> {{}}, cmds |-> "plain"] }
\* two cameras and one call naming no ids that moves them
PtzWorkloads ==
    { [cams |-> Cameras, tasks |-> {1}, ids |-> {{}}, cmds |-> "moves"] }
\* the commands the calls of a workload may carry
CommandsOf(w) ==
    IF w.cmds = "moves" THEN AxisCommands \cup SpeedCommands \cup PresetCommands
    ELSE Commands

\* EffectiveSpeed taking an override of 0 for none
EffectiveSpeed_Truthy(override, default) ==
    IF override # Absent /\ override[1] # 0 THEN override[1] ELSE default

\* lines 343-345: `speed_pan if speed_pan is not None else self._ptz_speed[ATTR_PAN]`
EffectiveSpeed(override, default) ==
    IF override # Absent THEN override[1] ELSE default

\* speed_pan_val, speed_tilt_val, speed_zoom_val
Speeds(cmd, c) ==
    [pan |-> EffectiveSpeed(cmd.speed_pan, PtzSpeed(c).pan),
     tilt |-> EffectiveSpeed(cmd.speed_tilt, PtzSpeed(c).tilt),
     zoom |-> EffectiveSpeed(cmd.speed_zoom, PtzSpeed(c).zoom)]

\* pan_val, tilt_val, zoom_val (lines 350-352)
Directions(axes, c) ==
    [pan |-> PtzStep(c).pan * axes.pan,
     tilt |-> PtzStep(c).tilt * axes.tilt,
     zoom |-> PtzStep(c).zoom * axes.zoom]

\* req.Velocity (lines 366-369)
Velocity(dir, sp) ==
    [pan |-> dir.pan * sp.pan, tilt |-> dir.tilt * sp.tilt, zoom |-> dir.zoom * sp.zoom]

\* what a request carries besides the profile token: PresetToken, Velocity
\* or Translation, Speed
NoArgs == [preset |-> Absent, vector |-> Absent, speed |-> Absent]
Args(op, cmd, axes, c) ==
    IF op = "GotoPreset" THEN [NoArgs EXCEPT !.preset = cmd.preset]
    ELSE IF op = "ContinuousMove"
    THEN [NoArgs EXCEPT !.vector = Some(Velocity(Directions(axes, c), Speeds(cmd, c)))]
    ELSE [NoArgs EXCEPT !.vector = Some(Directions(axes, c)), !.speed = Some(Speeds(cmd, c))]
\* async_extract_entity_ids returns the ids a call names (the empty set
\* when it names none)

(* ------------------------------ the log ------------------------------- *)
\* calls[c] holds the calls of the media and PTZ services that carry a
\* profile token or fetch one: GetProfiles of async_perform_ptz, GetStreamUri,
\* GotoPreset, ContinuousMove, Stop and RelativeMove.
\* by: ByInit for async_initialize, else ByTask(d) for the service call d
Request(op, by, token, args) == [op |-> op, by |-> by, token |-> token, args |-> args]
Entry(op, by, token) == Request(op, by, token, NoArgs)
ByInit == << >>
ByTask(d) == << d >>

PtzOps == {"GotoPreset", "ContinuousMove", "Stop", "RelativeMove"}

\* Classify with the duration tested before the preset
Classify_DurationFirst(cmd) ==
    IF cmd.duration # Absent THEN "ContinuousMove"
    ELSE IF cmd.preset # Absent THEN "GotoPreset"
    ELSE "RelativeMove"

\* the operation async_perform_ptz issues first for a command
Classify(cmd) ==
    IF cmd.preset # Absent THEN "GotoPreset"
    ELSE IF cmd.duration # Absent THEN "ContinuousMove"
    ELSE "RelativeMove"

\* PtzUnavailable with the guard left out
PtzUnavailable_NoGuard(handle) == FALSE

\* the guard at the top of async_perform_ptz: return without doing anything
PtzUnavailable(handle) == handle = None

\* "Bad Request" in err.reason, "preset token" in err.reason
HasBadRequest(r) == r \in {"Bad Request", "Bad Request: preset token"}
HasPresetToken(r) == r \in {"no such preset token", "Bad Request: preset token"}

\* PtzOnError with the two tests of the reason in the other order
PtzOnError_PresetFirst(handle, r) ==
    IF HasPresetToken(r) THEN handle
    ELSE IF HasBadRequest(r) THEN None
    ELSE handle

\* PtzOnError clearing the handle whatever the reason
PtzOnError_AnyReason(handle, r) == None

\* self._ptz_service after the except clause of async_perform_ptz ran for an
\* ONVIFError with reason r
PtzOnError(handle, r) ==
    IF HasBadRequest(r) THEN None
    ELSE IF HasPresetToken(r) THEN handle     \* logged only
    ELSE handle

\* where an exception of kind k raised by a call awaited inside the try of
\* async_perform_ptz goes: "handled" by the except clause, else out of
\* async_perform_ptz and of async_handle_ptz
PtzCatches(k) == k = "ONVIFError"

\* `not entity_ids`
NoIds(ids) == ids = {}

\* SelectTargets with the membership test negated
SelectTargets_NotIn(all_cameras, ids) == SelectSeq(all_cameras, LAMBDA c : c \notin ids)

\* target_cameras of async_handle_ptz when ids are given
SelectTargets(all_cameras, ids) == SelectSeq(all_cameras, LAMBDA c : c \in ids)

\* an async_handle_ptz task.  axes: pan, tilt and zoom after lines 122-124.
\* alias: target_cameras is the list all_cameras
\* itself.  cur: position in target_cameras of the session being handled.
\* invoked: the sessions async_perform_ptz was called on, each with the
\* handle it found and the pan, tilt and zoom it was given (history).  at_select: the registry when target_cameras
\* was computed (history).  moved: the sessions whose ContinuousMove
\* returned (history).
IdleTask ==
    [pc |-> "idle",
     cmd |-> Command(Absent, Absent, AxisNone, AxisNone, AxisNone, Absent, Absent, Absent),
     axes |-> NoAxes, ids |-> {},
     alias |-> FALSE, targets |-> << >>, cur |-> 0, token |-> Absent, hold |-> 0,
     exc |-> "", invoked |-> << >>, at_select |-> << >>, moved |-> {}]

UnusedTask == [IdleTask EXCEPT !.pc = "unused"]

TargetsOf(t, all_cameras) == IF t.alias THEN all_cameras ELSE t.targets

\* the first position from i on whose session does not return at once
RECURSIVE FirstLive(_, _, _)
FirstLive(T, i, ps) ==
    IF i > Len(T) THEN i
    ELSE IF PtzUnavailable(ps[T[i]]) THEN FirstLive(T, i + 1, ps)
    ELSE i

Invocations(T, i, j, ps, axes) ==
    [k \in 1 .. (j - i + 1) |->
        [cam |-> T[i + k - 1], handle |-> ps[T[i + k - 1]], axes |-> axes]]

(* --------------------------- platform setup --------------------------- *)
\* the comparison of the two clocks in async_initialize.  diff is
\* dt_diff_seconds, the camera's UTC time minus the system's (Absent when
\* GetSystemDateAndTime returned nothing to compare); warned: the warning of
\* lines 244-248 was logged.  The differences tried: none, the limit in
\* either direction, and beyond it in either direction.
ClockDiffs == {0 - MaxSkew, 0 - SkewLimit, 0, SkewLimit, MaxSkew}
NoClock == [cam |-> "", diff |-> Absent, warned |-> FALSE]

\* `if dt_diff_seconds > 5`
SkewWarning(diff) == diff > SkewLimit

\* `if device_time:` and the test of the difference
ClockCheck(c, dev) ==
    [cam |-> c, diff |-> dev,
     warned |-> IF dev = Absent THEN FALSE ELSE SkewWarning(dev[1])]

\* InitOnError with one handler for both ClientConnectorError and Fault
InitOnError_FaultNotReady(k) ==
    IF k \in {"ClientConnectorError", "Fault"} THEN "not_ready" ELSE "crashed"

\* where an exception of kind k raised inside the try of async_initialize
\* leaves async_setup_platform
InitOnError(k) ==
    IF k = "ClientConnectorError" THEN "not_ready"   \* raise PlatformNotReady
    ELSE IF k = "Fault" THEN "adding"                \* logged; return
    ELSE "crashed"                                   \* not caught

\* self._ptz_service after the inner try of async_initialize, p the outcome
\* of create_ptz_service()
CreatePtzService(p) == IF p.kind = "ok" THEN "PTZ" ELSE None

\* AfterCreatePtz without the inner try around create_ptz_service()
AfterCreatePtz_Uncaught(p) == IF p.kind = "ok" THEN "adding" ELSE InitOnError(p.kind)

\* where the outcome p of create_ptz_service() leaves async_setup_platform
AfterCreatePtz(p) ==
    IF p.kind \in {"ok", "ONVIFError"} THEN "adding" ELSE InitOnError(p.kind)

Init ==
    /\ service_registered = FALSE
    /\ onvif_data = [present |-> FALSE, entities |-> << >>]
    /\ workload \in Workloads
    /\ setup_pc = [c \in Cameras |-> IF c \in workload.cams THEN "new" ELSE "unconfigured"]
    /\ task = [d \in Tasks |-> IF d \in workload.tasks THEN IdleTask ELSE UnusedTask]
    /\ ptz_service = [c \in Cameras |-> None]
    /\ input = [c \in Cameras |-> Absent]
    /\ profile_index = [c \in Cameras |-> 0]
    /\ init_events = [c \in Cameras |-> {}]
    /\ calls = [c \in Cameras |-> << >>]
    /\ bad_request_at = [c \in Cameras |-> Absent]
    /\ resolved = NotResolved
    /\ clock = NoClock

\* async_setup_platform up to the first await of async_initialize: registers
\* the service, constructs the session (__init__) and calls update_xaddrs
SetupPlatform(c) ==
    /\ setup_pc[c] = "new"
    /\ service_registered' = TRUE
    /\ profile_index' = [profile_index EXCEPT ![c] = ConfProfile(c)]
    /\ ptz_service' = [ptz_service EXCEPT ![c] = None]
    /\ input' = [input EXCEPT ![c] = Absent]
    /\ init_events' = [init_events EXCEPT ![c] = {}]
    /\ bad_request_at' = [bad_request_at EXCEPT ![c] = Absent]
    /\ resolved' = NotResolved /\ clock' = NoClock
    /\ calls' = [calls EXCEPT ![c] = << >>]
    /\ setup_pc' = [setup_pc EXCEPT ![c] = "update_xaddrs"]
    /\ UNCHANGED << workload, onvif_data, task >>

\* an exception of kind k at stage st of async_initialize
InitFails(c, st, k) ==
    /\ setup_pc' = [setup_pc EXCEPT ![c] = InitOnError(k)]
    /\ init_events' = [init_events EXCEPT ![c] = @ \cup {<< st, k >>}]

\* reply to update_xaddrs; on success create_devicemgmt_service and
\* GetSystemDateAndTime
XaddrsReply(c) ==
    /\ setup_pc[c] = "update_xaddrs"
    /\ \E o \in NetOutcomes :
          IF o.kind = "ok"
          THEN /\ setup_pc' = [setup_pc EXCEPT ![c] = "get_time"]
               /\ UNCHANGED init_events
          ELSE InitFails(c, "address", o.kind)
    /\ UNCHANGED << workload, service_registered, onvif_data, ptz_service, input,
                    profile_index, calls, bad_request_at, task >>
    /\ resolved' = NotResolved /\ clock' = NoClock

\* reply to GetSystemDateAndTime; on success async_obtain_input_uri up to
\* GetProfiles
TimeReply(c) ==
    /\ setup_pc[c] = "get_time"
    /\ \E o \in NetOutcomes, dev \in Opt(ClockDiffs) :
          /\ (o.kind # "ok") => (dev = Absent)
          /\ IF o.kind = "ok"
             THEN /\ setup_pc' = [setup_pc EXCEPT ![c] = "init_profiles"]
                  /\ clock' = ClockCheck(c, dev)
                  /\ UNCHANGED init_events
             ELSE /\ InitFails(c, "time", o.kind)
                  /\ clock' = NoClock
    /\ UNCHANGED << workload, service_registered, onvif_data, ptz_service, input,
                    profile_index, calls, bad_request_at, task >>
    /\ resolved' = NotResolved

\* reply to GetProfiles in async_obtain_input_uri: the token is resolved and
\* GetStreamUri is called with it
InitProfilesReply(c) ==
    /\ setup_pc[c] = "init_profiles"
    /\ \E o \in NetOutcomes, n \in 0 .. MaxProfiles :
          /\ (o.kind # "ok") => (n = 0)
          /\ LET r == ObtainProfileToken(profile_index[c], o, n)
             IN  /\ profile_index' = [profile_index EXCEPT ![c] = r.index]
                 /\ resolved' = Resolution(c, o, n, r)
                 /\ IF r.exc = ""
                    THEN /\ setup_pc' = [setup_pc EXCEPT ![c] = "stream_uri"]
                         /\ calls' = [calls EXCEPT ![c] =
                                        Append(@, Entry("GetStreamUri", ByInit, r.token))]
                         /\ init_events' = [init_events EXCEPT ![c] =
                               IF r.token = Absent THEN @ \cup {<< "profiles", "no token" >>}
                               ELSE @]
                    ELSE /\ InitFails(c, "profiles", r.exc)
                         /\ UNCHANGED calls
    /\ UNCHANGED << workload, service_registered, onvif_data, ptz_service, input,
                    bad_request_at, task >>
    /\ clock' = NoClock

\* reply to GetStreamUri, the rest of async_obtain_input_uri and of
\* async_initialize (create_ptz_service), and async_add_entities
StreamUriReply(c) ==
    /\ setup_pc[c] = "stream_uri"
    /\ \E o \in NetOutcomes, p \in {Ok, Out("ONVIFError", "other")} :
          IF o.kind \in {"ok", "ONVIFError"}
          THEN /\ input' = [input EXCEPT ![c] = StreamSource(@, o, CameraUri)]
               /\ ptz_service' = [ptz_service EXCEPT ![c] = CreatePtzService(p)]
               /\ setup_pc' = [setup_pc EXCEPT ![c] = AfterCreatePtz(p)]
               /\ init_events' = [init_events EXCEPT ![c] =
                              @ \cup {<< "stream", o.kind >>, << "ptz", p.kind >>}]
          ELSE /\ InitFails(c, "stream", o.kind)
               /\ UNCHANGED << input, ptz_service >>
    /\ UNCHANGED << workload, service_registered, onvif_data, profile_index,
                    calls, bad_request_at, task >>
    /\ resolved' = NotResolved /\ clock' = NoClock

\* async_added_to_hass of the session async_add_entities was given
AddedToHass(c) ==
    /\ setup_pc[c] = "adding"
    /\ onvif_data' = [present |-> TRUE, entities |-> Append(onvif_data.entities, c)]
    /\ setup_pc' = [setup_pc EXCEPT ![c] = "added"]
    /\ UNCHANGED << workload, service_registered, ptz_service, input, profile_index,
                    init_events, calls, bad_request_at, task >>
    /\ resolved' = NotResolved /\ clock' = NoClock

\* the platform sets up a camera again after PlatformNotReady
Retry(c) ==
    /\ setup_pc[c] = "not_ready"
    /\ setup_pc' = [setup_pc EXCEPT ![c] = "new"]
    /\ UNCHANGED << workload, service_registered, onvif_data, ptz_service, input, profile_index,
                    init_events, calls, bad_request_at, task >>
    /\ resolved' = NotResolved /\ clock' = NoClock

(* ------------------------ the onvif_ptz service ----------------------- *)
\* an exception leaves async_perform_ptz and with it async_handle_ptz
Raise(d, t, k) ==
    task' = [task EXCEPT ![d] = [t EXCEPT !.pc = "raised", !.exc = k]]

\* the for loop of async_handle_ptz from position i on, up to the next await
\* that suspends: sessions without a PTZ handle return at once; the first one
\* with a handle runs async_perform_ptz up to GetProfiles
RunLoop(d, t, i, ps, cl) ==
    LET T == TargetsOf(t, onvif_data.entities)
        j == FirstLive(T, i, ps)
    IN  IF j > Len(T)
        THEN /\ task' = [task EXCEPT ![d] =
                    [t EXCEPT !.pc = "done", !.cur = j,
                              !.invoked = @ \o Invocations(T, i, j - 1, ps, t.axes)]]
             /\ calls' = cl
        ELSE /\ task' = [task EXCEPT ![d] =
                    [t EXCEPT !.pc = "profiles", !.cur = j, !.token = Absent,
                              !.invoked = @ \o Invocations(T, i, j, ps, t.axes)]]
             /\ calls' = [cl EXCEPT ![T[j]] =
                            Append(@, Entry("GetProfiles", ByTask(d), Absent))]

\* the session a suspended task is handling
Current(d) == TargetsOf(task[d], onvif_data.entities)[task[d].cur]

\* a service call arrives: async_handle_ptz up to async_extract_entity_ids
HandlePtz(d) ==
    /\ service_registered
    /\ task[d].pc = "idle"
    /\ \A e \in Tasks : e < d => task[e].pc # "idle"    \* numbered as they arrive
    /\ \E cmd \in CommandsOf(workload), ids \in workload.ids :
          LET t == [task[d] EXCEPT !.cmd = cmd, !.ids = ids]
          IN  IF onvif_data.present
              THEN task' = [task EXCEPT ![d] = [t EXCEPT !.pc = "extract"]]
              ELSE Raise(d, t, "KeyError")
    /\ UNCHANGED << workload, service_registered, onvif_data, setup_pc, ptz_service, input,
                    profile_index, init_events, calls, bad_request_at >>
    /\ resolved' = NotResolved /\ clock' = NoClock

\* async_extract_entity_ids returned: the targets are selected and the loop
\* starts
ExtractReply(d) ==
    /\ task[d].pc = "extract"
    /\ LET all_cameras == onvif_data.entities
           t == [task[d] EXCEPT
                   !.axes = Normalize(task[d].cmd),
                   !.alias = NoIds(task[d].ids),
                   !.targets = IF NoIds(task[d].ids) THEN << >>
                               ELSE SelectTargets(all_cameras, task[d].ids),
                   !.at_select = all_cameras]
       IN  RunLoop(d, t, 1, ptz_service, calls)
    /\ UNCHANGED << workload, service_registered, onvif_data, setup_pc, ptz_service, input,
                    profile_index, init_events, bad_request_at >>
    /\ resolved' = NotResolved /\ clock' = NoClock

\* reply to GetProfiles in async_perform_ptz: the token is resolved and the
\* command's operation is called
ProfilesReply(d) ==
    /\ task[d].pc = "profiles"
    /\ \E o \in ProfileOutcomes, n \in 0 .. MaxProfiles :
          /\ (o.kind # "ok") => (n = 0)
          /\ LET c == Current(d)
                 r == ObtainProfileToken(profile_index[c], o, n)
                 t == [task[d] EXCEPT !.token = r.token]
             IN  /\ profile_index' = [profile_index EXCEPT ![c] = r.index]
                 /\ resolved' = Resolution(c, o, n, r)
                 /\ IF r.exc # ""
                    THEN Raise(d, t, r.exc) /\ UNCHANGED calls
                    ELSE IF ptz_service[c] = None
                    THEN Raise(d, t, "AttributeError") /\ UNCHANGED calls
                    ELSE /\ task' = [task EXCEPT ![d] = [t EXCEPT !.pc = "op"]]
                         /\ calls' = [calls EXCEPT ![c] =
                               Append(@, Request(Classify(t.cmd), ByTask(d), r.token,
                                                 Args(Classify(t.cmd), t.cmd, t.axes, c)))]
    /\ UNCHANGED << workload, service_registered, onvif_data, setup_pc, ptz_service, input,
                    init_events, bad_request_at >>
    /\ clock' = NoClock

\* the except clause of async_perform_ptz for an ONVIFError with reason r,
\* and the loop going on to the next target
PtzFault(d, c, r) ==
    LET ps == [ptz_service EXCEPT ![c] = PtzOnError(@, r)]
    IN  /\ ptz_service' = ps
        /\ bad_request_at' = [bad_request_at EXCEPT ![c] =
               IF HasBadRequest(r) /\ @ = Absent THEN Some(Len(calls[c])) ELSE @]
        /\ RunLoop(d, task[d], task[d].cur + 1, ps, calls)

\* reply to GotoPreset, ContinuousMove or RelativeMove
OpReply(d) ==
    /\ task[d].pc = "op"
    /\ \E o \in PtzOutcomes :
          LET c == Current(d)
          IN  IF o.kind = "ok"
              THEN /\ IF Classify(task[d].cmd) = "ContinuousMove"
                      THEN /\ task' = [task EXCEPT ![d] =
                                 [@ EXCEPT !.pc = "hold", !.hold = task[d].cmd.duration[1],
                                           !.moved = @ \cup {c}]]
                           /\ UNCHANGED calls
                      ELSE RunLoop(d, task[d], task[d].cur + 1, ptz_service, calls)
                   /\ UNCHANGED << ptz_service, bad_request_at >>
              ELSE IF PtzCatches(o.kind)
              THEN PtzFault(d, c, o.reason)
              ELSE /\ Raise(d, task[d], o.kind)
                   /\ UNCHANGED << ptz_service, bad_request_at, calls >>
    /\ UNCHANGED << workload, service_registered, onvif_data, setup_pc, input, profile_index,
                    init_events >>
    /\ resolved' = NotResolved /\ clock' = NoClock

\* time passes for a task in asyncio.sleep(duration)
HoldTick(d) ==
    /\ task[d].pc = "hold"
    /\ task[d].hold > 0
    /\ task' = [task EXCEPT ![d].hold = @ - 1]
    /\ UNCHANGED << workload, service_registered, onvif_data, setup_pc, ptz_service, input,
                    profile_index, init_events, calls, bad_request_at >>
    /\ resolved' = NotResolved /\ clock' = NoClock

\* the task is cancelled while it waits in asyncio.sleep(duration):
\* CancelledError is raised at line 378 and leaves async_perform_ptz, whose
\* except clause names ONVIFError only.  (Spec holds the runs in which no
\* call is cancelled; SpecPtz those with cancellation too.)
Cancel(d) ==
    /\ task[d].pc = "hold"
    /\ Raise(d, task[d], "CancelledError")
    /\ UNCHANGED << workload, service_registered, onvif_data, setup_pc, ptz_service, input,
                    profile_index, init_events, calls, bad_request_at >>
    /\ resolved' = NotResolved /\ clock' = NoClock

\* asyncio.sleep(duration) returns: Stop is called
HoldDone(d) ==
    /\ task[d].pc = "hold"
    /\ task[d].hold = 0
    /\ LET c == Current(d)
       IN  IF ptz_service[c] = None
           THEN Raise(d, task[d], "AttributeError") /\ UNCHANGED calls
           ELSE /\ task' = [task EXCEPT ![d].pc = "stop"]
                /\ calls' = [calls EXCEPT ![c] =
                               Append(@, Entry("Stop", ByTask(d), task[d].token))]
    /\ UNCHANGED << workload, service_registered, onvif_data, setup_pc, ptz_service, input,
                    profile_index, init_events, bad_request_at >>
    /\ resolved' = NotResolved /\ clock' = NoClock

\* reply to Stop
StopReply(d) ==
    /\ task[d].pc = "stop"
    /\ \E o \in PtzOutcomes :
          LET c == Current(d)
          IN  IF o.kind = "ok"
              THEN /\ RunLoop(d, task[d], task[d].cur + 1, ptz_service, calls)
                   /\ UNCHANGED << ptz_service, bad_request_at >>
              ELSE IF PtzCatches(o.kind)
              THEN PtzFault(d, c, o.reason)
              ELSE /\ Raise(d, task[d], o.kind)
                   /\ UNCHANGED << ptz_service, bad_request_at, calls >>
    /\ UNCHANGED << workload, service_registered, onvif_data, setup_pc, input, profile_index,
                    init_events >>
    /\ resolved' = NotResolved /\ clock' = NoClock

(* --------------------------- specification ---------------------------- *)
Next ==
    \/ \E c \in Cameras : SetupPlatform(c)
    \/ \E c \in Cameras : XaddrsReply(c)
    \/ \E c \in Cameras : TimeReply(c)
    \/ \E c \in Cameras : InitProfilesReply(c)
    \/ \E c \in Cameras : StreamUriReply(c)
    \/ \E c \in Cameras : AddedToHass(c)
    \/ \E c \in Cameras : Retry(c)
    \/ \E d \in Tasks : HandlePtz(d)
    \/ \E d \in Tasks : ExtractReply(d)
    \/ \E d \in Tasks : ProfilesReply(d)
    \/ \E d \in Tasks : OpReply(d)
    \/ \E d \in Tasks : HoldTick(d)
    \/ \E d \in Tasks : HoldDone(d)
    \/ \E d \in Tasks : StopReply(d)

Spec == Init /\ [][Next]_vars

(* ------------------- the service on sessions set up ------------------- *)
\* Every configured camera was set up without a failure and added: the
\* stream source is resolved, the PTZ handle created, the service registered.
\* A call that moves the cameras is handled, and may be cancelled while it
\* holds.
InitPtz ==
    /\ service_registered = TRUE
    /\ workload \in PtzWorkloads
    /\ onvif_data = [present |-> TRUE, entities |-> << "camera.a", "camera.b" >>]
    /\ setup_pc = [c \in Cameras |-> "added"]
    /\ task = [d \in Tasks |-> IF d \in workload.tasks THEN IdleTask ELSE UnusedTask]
    /\ ptz_service = [c \in Cameras |-> CreatePtzService(Ok)]
    /\ input = [c \in Cameras |-> StreamSource(Absent, Ok, CameraUri)]
    /\ profile_index = [c \in Cameras |-> ConfProfile(c)]
    /\ init_events = [c \in Cameras |-> {<< "stream", "ok" >>, << "ptz", "ok" >>}]
    /\ calls = [c \in Cameras |->
                  << Entry("GetStreamUri", ByInit, Some(ConfProfile(c) + 1)) >>]
    /\ bad_request_at = [c \in Cameras |-> Absent]
    /\ resolved = NotResolved
    /\ clock = NoClock

NextPtz ==
    \/ \E d \in Tasks : HandlePtz(d)
    \/ \E d \in Tasks : ExtractReply(d)
    \/ \E d \in Tasks : ProfilesReply(d)
    \/ \E d \in Tasks : OpReply(d)
    \/ \E d \in Tasks : HoldTick(d)
    \/ \E d \in Tasks : Cancel(d)
    \/ \E d \in Tasks : HoldDone(d)
    \/ \E d \in Tasks : StopReply(d)

SpecPtz == InitPtz /\ [][NextPtz]_vars

(* ------------------------------ properties ---------------------------- *)
Registered == {onvif_data.entities[k] : k \in DOMAIN onvif_data.entities}
InvokedCams(d) == {task[d].invoked[k].cam : k \in DOMAIN task[d].invoked}
\* positions in calls[c] of the calls op that task d issued
CallsOf(d, c, op) ==
    {i \in DOMAIN calls[c] : calls[c][i].by = ByTask(d) /\ calls[c][i].op = op}
\* task d is in asyncio.sleep on session c
Holding(d, c) == task[d].pc = "hold" /\ Current(d) = c
\* async_handle_ptz selected its targets
Selected(d) == task[d].pc \notin {"unused", "idle", "extract"} /\ task[d].exc # "KeyError"

\* C1: every PTZ operation a command issues on a session belongs to the
\* variant chosen in the order preset, duration, neither (GotoPreset only when
\* a preset is given, with or without a duration; ContinuousMove and its Stop
\* only when a duration and no preset is given; RelativeMove only when neither
\* is given), and a command that got past profile resolution on a session
\* with a PTZ handle has issued the operation of its variant.
C1_OperationSelection ==
    \A d \in Tasks :
        LET cmd == task[d].cmd
            allowed == IF cmd.preset # Absent THEN {"GotoPreset"}
                       ELSE IF cmd.duration # Absent THEN {"ContinuousMove", "Stop"}
                       ELSE {"RelativeMove"}
            first == IF cmd.preset # Absent THEN "GotoPreset"
                     ELSE IF cmd.duration # Absent THEN "ContinuousMove"
                     ELSE "RelativeMove"
        IN  /\ \A c \in Cameras : \A i \in DOMAIN calls[c] :
                  (calls[c][i].by = ByTask(d) /\ calls[c][i].op \in PtzOps)
                      => calls[c][i].op \in allowed
            /\ \A k \in DOMAIN task[d].invoked :
                  ( /\ task[d].invoked[k].handle # None
                    /\ \/ k < Len(task[d].invoked)
                       \/ task[d].pc \in {"op", "hold", "stop", "done"} )
                      => CallsOf(d, task[d].invoked[k].cam, first) # {}

\* C1 witness: a command with both a preset and a duration issued GotoPreset
C1_Witness ==
    \E d \in Tasks, c \in Cameras :
        /\ task[d].cmd.preset # Absent /\ task[d].cmd.duration # Absent
        /\ CallsOf(d, c, "GotoPreset") # {}

\* C2: a ContinuousMove that returned is followed, once the hold is over, by
\* exactly one Stop of the same command with the same profile token, and by
\* no Stop while the hold lasts.
C2_StopFollowsMove ==
    \A d \in Tasks : \A c \in task[d].moved :
        IF Holding(d, c)
        THEN CallsOf(d, c, "Stop") = {}
        ELSE /\ Cardinality(CallsOf(d, c, "Stop")) = 1
             /\ \A i \in CallsOf(d, c, "Stop") : \A j \in CallsOf(d, c, "ContinuousMove") :
                   j < i /\ calls[c][i].token = calls[c][j].token

\* C3: once a PTZ call of a session failed with a "Bad Request" reason, the
\* session has no PTZ handle in any later state and no further call is issued
\* on it, by any command.
C3_DegradedStaysSilent ==
    \A c \in Cameras :
        bad_request_at[c] # Absent
            => /\ ptz_service[c] = None
               /\ Len(calls[c]) = bad_request_at[c][1]

\* C3 witness: a command was handled by a session after its "Bad Request"
C3_Witness ==
    \E c \in Cameras, d \in Tasks :
        /\ bad_request_at[c] # Absent
        /\ \E k \in DOMAIN task[d].invoked :
              task[d].invoked[k].cam = c /\ task[d].invoked[k].handle = None

\* C4: async_perform_ptz is invoked at most once per session and only on
\* selected sessions: with no ids, registered sessions; with ids, the sessions
\* registered at selection whose id is among them.  A dispatch that ran to
\* its end invoked it on every selected session.
C4_TargetSelection ==
    \A d \in Tasks :
        LET atSelect == {task[d].at_select[k] : k \in DOMAIN task[d].at_select}
            named == {c \in atSelect : c \in task[d].ids}
        IN  /\ Cardinality(InvokedCams(d)) = Len(task[d].invoked)
            /\ ~Selected(d) => task[d].invoked = << >>
            /\ Selected(d) =>
                  IF task[d].ids = {}
                  THEN /\ InvokedCams(d) \subseteq Registered
                       /\ task[d].pc = "done" => atSelect \subseteq InvokedCams(d)
                  ELSE /\ InvokedCams(d) \subseteq named
                       /\ task[d].pc = "done" => InvokedCams(d) = named

\* C4 witness: a call naming one of two registered sessions ran to its end
\* and reached that session only
C4_Witness ==
    \E d \in Tasks :
        /\ task[d].pc = "done"
        /\ task[d].ids = {"camera.a"}
        /\ Registered = Cameras
        /\ InvokedCams(d) = {"camera.a"}

\* C5: a dispatch that has ended, normally or by an error raised while one
\* target was handled, has invoked async_perform_ptz on every target: every
\* session registered at selection when no ids are given, those among them
\* whose id is given otherwise.  (Stated for the errors other than the
\* IndexError of profile resolution, which C6 is about.)
C5_DispatchIndependent ==
    \A d \in Tasks :
        LET atSelect == {task[d].at_select[k] : k \in DOMAIN task[d].at_select}
            targets == IF task[d].ids = {} THEN atSelect
                       ELSE {c \in atSelect : c \in task[d].ids}
        IN  (Selected(d) /\ task[d].pc \in {"done", "raised"} /\ task[d].exc # "IndexError")
                => targets \subseteq InvokedCams(d)

\* C6: a run of async_obtain_profile_token that got a profile list raises
\* nothing and returns the token of the profile at the configured index when
\* that index is in range, of the last profile otherwise.
C6_FallbackNeverRaises ==
    resolved.reply = "ok"
        => /\ resolved.exc = ""
           /\ resolved.token =
                 IF ConfProfile(resolved.cam) < resolved.n
                 THEN Some(ConfProfile(resolved.cam) + 1)
                 ELSE Some(resolved.n)

\* C7: no GetStreamUri and no PTZ operation is issued with the "no token"
\* result of profile resolution.
C7_NoTokenNoCall ==
    \A c \in Cameras : \A i \in DOMAIN calls[c] :
        calls[c][i].op \in PtzOps \cup {"GetStreamUri"} => calls[c][i].token # Absent

\* C8: a setup that has gone past its first step ended "not ready" exactly
\* when a ClientConnectorError occurred in async_initialize, and then the
\* session is not registered; after a Fault in address or time resolution
\* async_initialize returned normally (the session goes on to be added) with
\* no stream source and no PTZ handle.
C8_NotReadyIffUnreachable ==
    \A c \in Cameras :
        setup_pc[c] \notin {"unconfigured", "new"}
            => /\ (setup_pc[c] = "not_ready")
                      <=> (\E ev \in init_events[c] : ev[2] = "ClientConnectorError")
               /\ setup_pc[c] = "not_ready" => c \notin Registered
               /\ (\E ev \in init_events[c] : ev[1] \in {"address", "time"} /\ ev[2] = "Fault")
                      => /\ setup_pc[c] \in {"adding", "added"}
                         /\ input[c] = Absent
                         /\ ptz_service[c] = None

\* C8 witness: one setup ended "not ready", another was added after a Fault
\* in time resolution
C8_Witness ==
    \E c1, c2 \in Cameras :
        /\ setup_pc[c1] = "not_ready"
        /\ setup_pc[c2] = "added" /\ << "time", "Fault" >> \in init_events[c2]

\* C9: when create_ptz_service failed with an ONVIFError, async_initialize
\* returned normally, the PTZ handle is absent and the stream source is the
\* one GetStreamUri resolved (absent when it resolved none).
C9_PtzCreationFailureTolerated ==
    \A c \in Cameras :
        << "ptz", "ONVIFError" >> \in init_events[c]
            => /\ setup_pc[c] \in {"adding", "added"}
               /\ ptz_service[c] = None
               /\ input[c] = IF << "stream", "ok" >> \in init_events[c]
                             THEN << "rtsp://", Credentials, "host/stream" >>
                             ELSE Absent

\* C9 witness: PTZ creation failed after a stream source was resolved
C9_Witness ==
    \E c \in Cameras :
        /\ << "ptz", "ONVIFError" >> \in init_events[c]
        /\ << "stream", "ok" >> \in init_events[c]
        /\ setup_pc[c] = "adding"

\* C10: a step in which async_perform_ptz is started on a session without a
\* PTZ handle issues no call on that session, leaves the session's state
\* unchanged and does not end the dispatch with an error.
C10_AbsentHandleNoOp ==
    [][ \A d \in Tasks : \A k \in DOMAIN task'[d].invoked :
            (k > Len(task[d].invoked) /\ task'[d].invoked[k].handle = None)
                => LET c == task'[d].invoked[k].cam
                   IN  /\ calls'[c] = calls[c]
                       /\ ptz_service'[c] = ptz_service[c]
                       /\ input'[c] = input[c]
                       /\ profile_index'[c] = profile_index[c]
                       /\ task'[d].pc # "raised" ]_vars

\* C10 witness: a command was started on a session without a PTZ handle,
\* after another session handled it
C10_Witness ==
    \E d \in Tasks :
        /\ Len(task[d].invoked) = 2
        /\ task[d].invoked[1].handle # None
        /\ task[d].invoked[2].handle = None

\* task d's ContinuousMove on session c ended in the except clause: the task
\* went on without sleeping and without a Stop
MoveFaulted(d, c) ==
    /\ Classify(task[d].cmd) = "ContinuousMove"
    /\ CallsOf(d, c, "ContinuousMove") # {}
    /\ CallsOf(d, c, "Stop") = {}
    /\ c \notin task[d].moved
    /\ task[d].pc = "done"

\* C11: an ONVIFError of a PTZ call whose reason has no "Bad Request" leaves
\* the session as it was and does not leave async_perform_ptz.  A session
\* whose PTZ handle was created loses it only in a step that records a "Bad
\* Request"; a step in which the reply to a PTZ operation arrives changes the
\* handle only by such a fault, leaves the stream source and the profile index
\* alone, and never ends the dispatch with the ONVIFError.  Hence a command
\* handled by the session after any other fault finds the handle and goes on
\* to its operation.
C11_OtherFaultsKeepHandle ==
    /\ [](\A c \in Cameras :
            (<< "ptz", "ok" >> \in init_events[c] /\ bad_request_at[c] = Absent)
                => ptz_service[c] = "PTZ")
    /\ [][ \A d \in Tasks :
              (task[d].pc \in {"op", "stop"} /\ task'[d] # task[d])
                  => LET c == Current(d)
                     IN  /\ (bad_request_at'[c] = bad_request_at[c])
                                => (ptz_service'[c] = ptz_service[c])
                         /\ input'[c] = input[c]
                         /\ profile_index'[c] = profile_index[c]
                         /\ task'[d].exc # "ONVIFError" ]_vars

\* C11 witness: a ContinuousMove ended in the except clause, the session kept
\* its handle, and another command issued its operation on the session later
C11_Witness ==
    \E d, e \in Tasks, c \in Cameras :
        /\ d # e
        /\ MoveFaulted(d, c)
        /\ ptz_service[c] = "PTZ"
        /\ \E i \in CallsOf(d, c, "ContinuousMove"), j \in DOMAIN calls[c] :
              /\ i < j
              /\ calls[c][j].by = ByTask(e)
              /\ calls[c][j].op = "RelativeMove"

\* the normalization the claim tabulates, for one axis
TableAxis(v, neg, pos) ==
    CASE v = Token(neg) -> -20
      [] v = Token(pos) -> 20
      [] v = Token("NONE") \/ v = AxisNone -> 0
      [] OTHER -> v.num

\* C12: every session a call is dispatched to is given the same pan, tilt
\* and zoom, each the value the table gives for the call's value of that
\* axis: -20 for LEFT, DOWN, ZOOM_OUT; +20 for RIGHT, UP, ZOOM_IN; 0 for NONE
\* and for an absent value; the number itself otherwise.
C12_Normalization ==
    \A d \in Tasks : \A k \in DOMAIN task[d].invoked :
        task[d].invoked[k].axes =
            [pan |-> TableAxis(task[d].cmd.pan, "LEFT", "RIGHT"),
             tilt |-> TableAxis(task[d].cmd.tilt, "DOWN", "UP"),
             zoom |-> TableAxis(task[d].cmd.zoom, "ZOOM_OUT", "ZOOM_IN")]

\* C12 witness: a call with a direction, a number and an absent axis was
\* dispatched to two sessions
C12_Witness ==
    \E d \in Tasks :
        /\ Len(task[d].invoked) = 2
        /\ task[d].cmd.pan = Token("LEFT")
        /\ task[d].cmd.tilt = Number(MaxAxis)
        /\ task[d].cmd.zoom = AxisNone

\* C13: a RelativeMove carries, for each axis, the translation normalized
\* value times configured step and the speed the call gives for the axis (0
\* included), or the session's configured speed when the call gives none; a
\* ContinuousMove carries, for each axis, the velocity normalized value times
\* configured step times that speed.
C13_SpeedAndDistance ==
    \A d \in Tasks, c \in Cameras : \A i \in DOMAIN calls[c] :
        LET e == calls[c][i]
            cmd == task[d].cmd
            n == task[d].axes
            speed == [pan |-> IF cmd.speed_pan = Absent THEN PtzSpeed(c).pan
                              ELSE cmd.speed_pan[1],
                      tilt |-> IF cmd.speed_tilt = Absent THEN PtzSpeed(c).tilt
                               ELSE cmd.speed_tilt[1],
                      zoom |-> IF cmd.speed_zoom = Absent THEN PtzSpeed(c).zoom
                               ELSE cmd.speed_zoom[1]]
        IN  /\ (e.by = ByTask(d) /\ e.op = "RelativeMove")
                  => /\ e.args.vector = Some([pan |-> n.pan * PtzStep(c).pan,
                                              tilt |-> n.tilt * PtzStep(c).tilt,
                                              zoom |-> n.zoom * PtzStep(c).zoom])
                     /\ e.args.speed = Some(speed)
            /\ (e.by = ByTask(d) /\ e.op = "ContinuousMove")
                  => e.args.vector =
                        Some([pan |-> n.pan * PtzStep(c).pan * speed.pan,
                              tilt |-> n.tilt * PtzStep(c).tilt * speed.tilt,
                              zoom |-> n.zoom * PtzStep(c).zoom * speed.zoom])

\* C13 witness: a call giving the speed 0 for pan and none for tilt moved
\* one session by a RelativeMove and then the session configured per axis
C13_Witness ==
    \E d \in Tasks :
        /\ task[d].cmd.speed_pan = Some(0)
        /\ task[d].cmd.speed_tilt = Absent
        /\ CallsOf(d, "camera.a", "RelativeMove") # {}
        /\ CallsOf(d, "camera.b", "RelativeMove") # {}

\* C14: the PTZ operations of two commands on one session are not
\* interleaved: no operation of another command lies between two operations
\* of one command (its ContinuousMove and its Stop).
C14_SerializedPerSession ==
    \A c \in Cameras : \A i, j, k \in DOMAIN calls[c] :
        ( /\ i < j /\ j < k
          /\ calls[c][i].op \in PtzOps
          /\ calls[c][j].op \in PtzOps
          /\ calls[c][k].op \in PtzOps
          /\ calls[c][i].by = calls[c][k].by )
            => calls[c][j].by = calls[c][i].by

\* C15: a command cancelled during the hold has issued the Stop for the
\* session it moved.
C15_StopOnCancel ==
    \A d \in Tasks :
        task[d].exc = "CancelledError" => CallsOf(d, Current(d), "Stop") # {}

\* C16: when async_initialize compared the two clocks, it warned exactly
\* when they differ by more than 5 seconds, in either direction, and went on
\* to resolve the stream URI.
C16_SkewWarning ==
    (clock.cam # "" /\ clock.diff # Absent)
        => /\ clock.warned <=> (clock.diff[1] > 5 \/ clock.diff[1] < -5)
           /\ setup_pc[clock.cam] = "init_profiles"

\* C17: no command ends with the error of using a PTZ handle that another
\* command cleared while it was suspended.
C17_NoUseOfClearedHandle ==
    \A d \in Tasks : task[d].exc # "AttributeError"

\* C18: a run of async_obtain_profile_token that got a profile list in which
\* the configured index is in range returns the token of the profile at that
\* index, whatever the earlier runs got.
C18_ConfiguredIndexKept ==
    ( /\ resolved.reply = "ok"
      /\ resolved.exc = ""
      /\ ConfProfile(resolved.cam) < resolved.n )
        => resolved.token = Some(ConfProfile(resolved.cam) + 1)

\* C19: a dispatch gives its command only to sessions that were registered
\* when it selected its targets.
C19_SnapshotOfRegistry ==
    \A d \in Tasks :
        InvokedCams(d) \subseteq {task[d].at_select[k] : k \in DOMAIN task[d].at_select}

\* C20: a service call handled while no session is registered ends without
\* an error (and issues no call).
C20_EmptyRegistryNoError ==
    \A d \in Tasks :
        (task[d].pc \in {"done", "raised"} /\ task[d].at_select = << >>)
            => /\ task[d].pc = "done"
               /\ \A c \in Cameras : \A i \in DOMAIN calls[c] :
                     calls[c][i].by # ByTask(d)

====
